---- MODULE Spec2Model ----
(***************************************************************************)
(* A model of hq's document transformation pipeline, process_html         *)
(* (src/src/lib.rs): selector-driven extraction, pruning, link rewriting, *)
(* the four serialization modes and the compaction step.                  *)
(*                                                                         *)
(* Text is a sequence of characters, each character a one-character        *)
(* string.  A document is a tree of nodes held as parent / children links, *)
(* as the tree provider (kuchikiki) holds it; its lazy pre-order traversal *)
(* is modelled edge by edge because process_html detaches nodes while it   *)
(* iterates.                                                               *)
(***************************************************************************)
EXTENDS Integers, Sequences, FiniteSets, TLC

VARIABLES html, config, tree, base, iter, cur, output, result, pc, log

vars == <<html, config, tree, base, iter, cur, output, result, pc, log>>

(***************************************************************************)
(* Characters and text helpers (Rust str / char methods used by lib.rs).   *)
(***************************************************************************)
NL == "\n"
CR == "\r"
TAB == "\t"
\* form feed: a control character with no escape of its own in the repair scan
FF == "\f"
QUOTE == "\""
BSL == "\\"
GT == ">"
LT == "<"

\* char::is_whitespace, on the characters the model uses
IsWs(c) == c \in {" ", NL, CR, TAB, FF}

\* char::is_control, on the characters the model uses
IsControl(c) == c \in {NL, CR, TAB, FF}

RECURSIVE ConcatRange(_, _, _)
\* the concatenation of ss[lo..hi], halving the range to keep evaluation shallow
ConcatRange(ss, lo, hi) ==
    IF lo > hi THEN <<>>
    ELSE IF lo = hi THEN ss[lo]
    ELSE ConcatRange(ss, lo, (lo + hi) \div 2)
         \o ConcatRange(ss, (lo + hi) \div 2 + 1, hi)

\* the concatenation of a sequence of texts
Concat(ss) == ConcatRange(ss, 1, Len(ss))

RECURSIVE TrimStart(_)
\* str::trim_start
TrimStart(s) == IF s # <<>> /\ IsWs(Head(s)) THEN TrimStart(Tail(s)) ELSE s

RECURSIVE TrimEnd(_)
\* str::trim_end
TrimEnd(s) ==
    IF s # <<>> /\ IsWs(s[Len(s)]) THEN TrimEnd(SubSeq(s, 1, Len(s) - 1)) ELSE s

\* str::trim
Trim(s) == TrimEnd(TrimStart(s))

\* one character of str::split(c): c closes the piece being read and opens an
\* empty one, any other character joins the piece being read
SplitStep(pieces, ch, c) ==
    IF ch = c THEN Append(pieces, <<>>)
    ELSE [pieces EXCEPT ![Len(pieces)] = Append(pieces[Len(pieces)], ch)]

RECURSIVE SplitScan(_, _, _, _, _)
\* SplitStep over s[lo..hi], left to right.  The range is halved, and the
\* left half is computed (the test on left) before the right half is read, to
\* keep evaluation shallow.
SplitScan(s, c, lo, hi, pieces) ==
    IF lo > hi THEN pieces
    ELSE IF lo = hi THEN SplitStep(pieces, s[lo], c)
    ELSE LET left == SplitScan(s, c, lo, (lo + hi) \div 2, pieces)
         IN IF Len(left) > 0 THEN SplitScan(s, c, (lo + hi) \div 2 + 1, hi, left)
            ELSE left

\* str::split(c): the pieces of s between occurrences of c.  A text with n
\* occurrences of c has n + 1 pieces.
SplitOn(s, c) == SplitScan(s, c, 1, Len(s), << <<>> >>)

\* [&str]::join(c)
JoinWith(pieces, c) ==
    Concat([i \in 1..Len(pieces) |-> IF i = 1 THEN pieces[1] ELSE <<c>> \o pieces[i]])

(***************************************************************************)
(* The document tree.  A tree is a record of functions over node ids:      *)
(* kind, tag, attrs (a sequence of name/value pairs), text, parent (0 for  *)
(* none) and kids (the ordered children).  Node 1 is the document node.    *)
(***************************************************************************)
Elem(tag, attrs, parent, kids) ==
    [kind |-> "elem", tag |-> tag, attrs |-> attrs, text |-> <<>>,
     parent |-> parent, kids |-> kids]

TextNode(text, parent) ==
    [kind |-> "text", tag |-> <<>>, attrs |-> <<>>, text |-> text,
     parent |-> parent, kids |-> <<>>]

DocNode(kids) ==
    [kind |-> "doc", tag |-> <<>>, attrs |-> <<>>, text |-> <<>>,
     parent |-> 0, kids |-> kids]

Attr(name, value) == [name |-> name, value |-> value]

\* names used by the documents below
TagHtml == <<"h","t","m","l">>
TagHead == <<"h","e","a","d">>
TagBody == <<"b","o","d","y">>
TagDiv == <<"d","i","v">>
TagSpan == <<"s","p","a","n">>
TagBase == <<"b","a","s","e">>
TagA == <<"a">>
TagB == <<"b">>
TagI == <<"i">>
TagP == <<"p">>
AttrId == <<"i","d">>
AttrClass == <<"c","l","a","s","s">>
AttrHref == <<"h","r","e","f">>
AttrSrc == <<"s","r","c">>

\* URLs used by the documents and configurations below
UrlDoc == <<"h","t","t","p","s",":","/","/","e",".","c","o","m","/","d","/">>
UrlGiven == <<"h","t","t","p","s",":","/","/","o",".","o","r","g","/">>
UrlBad == <<"n","o","p","e">>
UrlRel == <<"/","p">>

\* The trees html5ever builds for the inputs of the model (html, head and
\* body are always present).
\* <div id="a">X<span> Y </span></div>
DocScenario ==
    << DocNode(<<2>>),
       Elem(TagHtml, <<>>, 1, <<3, 4>>),
       Elem(TagHead, <<>>, 2, <<>>),
       Elem(TagBody, <<>>, 2, <<5>>),
       Elem(TagDiv, <<Attr(AttrId, <<"a">>)>>, 4, <<6, 7>>),
       TextNode(<<"X">>, 5),
       Elem(TagSpan, <<>>, 5, <<8>>),
       TextNode(<<" ","Y"," ">>, 7) >>

\* <div><i class="r">A</i><b>B</b><i class="r">C</i></div><div class="r">D</div><div>E</div>
DocPrune ==
    << DocNode(<<2>>),
       Elem(TagHtml, <<>>, 1, <<3, 4>>),
       Elem(TagHead, <<>>, 2, <<>>),
       Elem(TagBody, <<>>, 2, <<5, 12, 14>>),
       Elem(TagDiv, <<>>, 4, <<6, 8, 10>>),
       Elem(TagI, <<Attr(AttrClass, <<"r">>)>>, 5, <<7>>),
       TextNode(<<"A">>, 6),
       Elem(TagB, <<>>, 5, <<9>>),
       TextNode(<<"B">>, 8),
       Elem(TagI, <<Attr(AttrClass, <<"r">>)>>, 5, <<11>>),
       TextNode(<<"C">>, 10),
       Elem(TagDiv, <<Attr(AttrClass, <<"r">>)>>, 4, <<13>>),
       TextNode(<<"D">>, 12),
       Elem(TagDiv, <<>>, 4, <<15>>),
       TextNode(<<"E">>, 14) >>

\* <base href="https://e.com/d/"><div><a href="/p" id="a">x</a><div class="r"> </div></div>
DocLinks ==
    << DocNode(<<2>>),
       Elem(TagHtml, <<>>, 1, <<3, 5>>),
       Elem(TagHead, <<>>, 2, <<4>>),
       Elem(TagBase, <<Attr(AttrHref, UrlDoc)>>, 3, <<>>),
       Elem(TagBody, <<>>, 2, <<6>>),
       Elem(TagDiv, <<>>, 5, <<7, 9>>),
       Elem(TagA, <<Attr(AttrHref, UrlRel), Attr(AttrId, <<"a">>)>>, 6, <<8>>),
       TextNode(<<"x">>, 7),
       Elem(TagDiv, <<Attr(AttrClass, <<"r">>)>>, 6, <<10>>),
       TextNode(<<" ">>, 9) >>

\* <p>[1, "x"]</p><p> </p>
DocJson ==
    << DocNode(<<2>>),
       Elem(TagHtml, <<>>, 1, <<3, 4>>),
       Elem(TagHead, <<>>, 2, <<>>),
       Elem(TagBody, <<>>, 2, <<5, 7>>),
       Elem(TagP, <<Attr(AttrId, <<"a">>)>>, 4, <<6>>),
       TextNode(<<"[","1",","," ",QUOTE,"x",QUOTE,"]">>, 5),
       Elem(TagP, <<>>, 4, <<8>>),
       TextNode(<<" ">>, 7) >>

Inputs == {"scenario", "prune", "links", "json"}

\* kuchikiki::parse_html().one(html): the tree of an input
ParseHtml(h) ==
    CASE h = "scenario" -> DocScenario
      [] h = "prune" -> DocPrune
      [] h = "links" -> DocLinks
      [] h = "json" -> DocJson

NoTree == <<>>

Nodes(t) == DOMAIN t

RECURSIVE Without(_, _)
\* s without the element n
Without(s, n) ==
    IF s = <<>> THEN <<>>
    ELSE IF Head(s) = n THEN Without(Tail(s), n)
    ELSE <<Head(s)>> \o Without(Tail(s), n)

\* NodeRef::detach: unlink n from its parent and siblings; n keeps its subtree
Detach(t, n) ==
    IF t[n].parent = 0 THEN t
    ELSE [t EXCEPT ![n].parent = 0,
                   ![t[n].parent].kids = Without(t[t[n].parent].kids, n)]

\* the position of n among its parent's children
IndexIn(s, n) == CHOOSE i \in 1..Len(s) : s[i] = n

\* NodeRef::next_sibling, 0 for none
NextSibling(t, n) ==
    IF t[n].parent = 0 THEN 0
    ELSE LET sibs == t[t[n].parent].kids
             i == IndexIn(sibs, n)
         IN IF i < Len(sibs) THEN sibs[i + 1] ELSE 0

\* NodeRef::first_child, 0 for none
FirstChild(t, n) == IF t[n].kids = <<>> THEN 0 ELSE t[n].kids[1]

(***************************************************************************)
(* Traverse: the tree provider's lazy pre-order iterator.  Its state is    *)
(* the edge it will return next; the edge after that is computed from the  *)
(* links the tree has at the moment next() is called.                      *)
(***************************************************************************)
StartEdge(n) == [e |-> "Start", n |-> n]
EndEdge(n) == [e |-> "End", n |-> n]
NoEdge == [e |-> "None", n |-> 0]

\* the edge that follows edge in the tree as it is now
EdgeAfter(t, edge) ==
    IF edge.e = "Start"
    THEN IF FirstChild(t, edge.n) # 0 THEN StartEdge(FirstChild(t, edge.n))
         ELSE EndEdge(edge.n)
    ELSE IF NextSibling(t, edge.n) # 0 THEN StartEdge(NextSibling(t, edge.n))
    ELSE IF t[edge.n].parent # 0 THEN EndEdge(t[edge.n].parent)
    ELSE NoEdge

\* Traverse::next on the traversal of root's inclusive descendants: the state
\* left behind after edge has been returned
TraverseNext(t, edge, root) ==
    IF edge = EndEdge(root) THEN NoEdge ELSE EdgeAfter(t, edge)

(***************************************************************************)
(* Selectors.  A selector string is parsed by the selector engine into a   *)
(* compound of simple tests, or rejected.                                  *)
(***************************************************************************)
NoSelector == [ok |-> FALSE, alts |-> {}]

\* Selectors::compile on one selector string
ParseSelector(s) ==
    CASE s = "div" -> [ok |-> TRUE, alts |-> {[by |-> "tag", v |-> TagDiv]}]
      [] s = "p" -> [ok |-> TRUE, alts |-> {[by |-> "tag", v |-> TagP]}]
      [] s = "a" -> [ok |-> TRUE, alts |-> {[by |-> "tag", v |-> TagA]}]
      [] s = "i" -> [ok |-> TRUE, alts |-> {[by |-> "tag", v |-> TagI]}]
      [] s = "b" -> [ok |-> TRUE, alts |-> {[by |-> "tag", v |-> TagB]}]
      [] s = "h1" -> [ok |-> TRUE, alts |-> {[by |-> "tag", v |-> <<"h","1">>]}]
      [] s = ".r" -> [ok |-> TRUE, alts |-> {[by |-> "class", v |-> <<"r">>]}]
      [] s = "#a" -> [ok |-> TRUE, alts |-> {[by |-> "id", v |-> <<"a">>]}]
      [] s = ":root" -> [ok |-> TRUE, alts |-> {[by |-> "root", v |-> <<>>]}]
      [] OTHER -> NoSelector

RECURSIVE ParseSelectorList(_)
\* Selectors::compile on list.join(","): every piece must be a selector, and
\* the empty string (the join of an empty list) is not one
ParseSelectorList(list) ==
    IF list = <<>> THEN NoSelector
    ELSE LET first == ParseSelector(Head(list))
         IN IF ~first.ok THEN NoSelector
            ELSE IF Len(list) = 1 THEN first
            ELSE LET rest == ParseSelectorList(Tail(list))
                 IN IF ~rest.ok THEN NoSelector
                    ELSE [ok |-> TRUE, alts |-> first.alts \cup rest.alts]

\* the value of attribute name on node n, or "none"
AttrGet(t, n, name) ==
    IF \E i \in 1..Len(t[n].attrs) : t[n].attrs[i].name = name
    THEN LET i == CHOOSE j \in 1..Len(t[n].attrs) : t[n].attrs[j].name = name
         IN [some |-> TRUE, value |-> t[n].attrs[i].value]
    ELSE [some |-> FALSE, value |-> <<>>]

\* whether element n matches one simple test
MatchesSimple(t, n, simple) ==
    CASE simple.by = "tag" -> t[n].tag = simple.v
      [] simple.by = "class" -> AttrGet(t, n, AttrClass) = [some |-> TRUE, value |-> simple.v]
      [] simple.by = "id" -> AttrGet(t, n, AttrId) = [some |-> TRUE, value |-> simple.v]
      [] simple.by = "root" -> t[n].parent # 0 /\ t[t[n].parent].kind = "doc"

\* Selectors::matches: n is an element and matches one of the alternatives
Matches(t, n, sel) ==
    /\ t[n].kind = "elem"
    /\ \E simple \in sel.alts : MatchesSimple(t, n, simple)

(***************************************************************************)
(* Serialization (lib.rs select_attributes, serialize_text; the raw        *)
(* markup writer of the tree provider; the pretty printer).                *)
(***************************************************************************)
VoidTags == {TagBase}

RECURSIVE EscapeText(_)
\* the markup writer's escaping of text content
EscapeText(s) ==
    IF s = <<>> THEN <<>>
    ELSE (CASE Head(s) = "&" -> <<"&","a","m","p",";">>
            [] Head(s) = LT -> <<"&","l","t",";">>
            [] Head(s) = GT -> <<"&","g","t",";">>
            [] OTHER -> <<Head(s)>>) \o EscapeText(Tail(s))

RECURSIVE SerializeAttrs(_)
\* name="value" for every attribute, each preceded by a space
SerializeAttrs(attrs) ==
    IF attrs = <<>> THEN <<>>
    ELSE <<" ">> \o Head(attrs).name \o <<"=", QUOTE>> \o Head(attrs).value
         \o <<QUOTE>> \o SerializeAttrs(Tail(attrs))

RECURSIVE SerializeNode(_, _)
RECURSIVE SerializeKids(_, _)
\* node.to_string(): the node and its subtree as markup, as the tree holds it
SerializeNode(t, n) ==
    CASE t[n].kind = "text" -> EscapeText(t[n].text)
      [] t[n].kind = "doc" -> SerializeKids(t, t[n].kids)
      [] t[n].kind = "elem" ->
            <<LT>> \o t[n].tag \o SerializeAttrs(t[n].attrs) \o <<GT>>
            \o (IF t[n].tag \in VoidTags THEN <<>>
                ELSE SerializeKids(t, t[n].kids) \o <<LT, "/">> \o t[n].tag \o <<GT>>)

SerializeKids(t, kids) ==
    IF kids = <<>> THEN <<>>
    ELSE SerializeNode(t, Head(kids)) \o SerializeKids(t, Tail(kids))

RECURSIVE Descendants(_, _)
RECURSIVE DescendantsOfAll(_, _)
\* node.inclusive_descendants(): n and its subtree in document order
Descendants(t, n) == <<n>> \o DescendantsOfAll(t, t[n].kids)

DescendantsOfAll(t, kids) ==
    IF kids = <<>> THEN <<>>
    ELSE Descendants(t, Head(kids)) \o DescendantsOfAll(t, Tail(kids))

\* whether a text is empty once trimmed
IsBlank(s) == Trim(s) = <<>>

RECURSIVE TextOf(_, _, _)
\* the loop of serialize_text over the nodes of the subtree
TextOf(t, nodes, ignore_whitespace) ==
    IF nodes = <<>> THEN <<>>
    ELSE LET n == Head(nodes)
             rest == TextOf(t, Tail(nodes), ignore_whitespace)
         IN IF t[n].kind # "text" THEN rest
            ELSE IF ignore_whitespace /\ IsBlank(t[n].text) THEN rest
            ELSE t[n].text \o (IF ignore_whitespace THEN <<NL>> ELSE <<>>) \o rest

\* serialize_text without the newline pushed after every retained chunk
serialize_text_unseparated(t, n, ignore_whitespace) ==
    LET d == Descendants(t, n)
    IN Concat([i \in 1..Len(d) |->
                  IF t[d[i]].kind # "text" THEN <<>>
                  ELSE IF ignore_whitespace /\ IsBlank(t[d[i]].text) THEN <<>>
                  ELSE t[d[i]].text])

\* serialize_text
serialize_text(t, n, ignore_whitespace) ==
    TextOf(t, Descendants(t, n), ignore_whitespace)

RECURSIVE select_attributes(_, _, _)
\* select_attributes: one line per requested attribute the node carries
select_attributes(t, n, attributes) ==
    IF t[n].kind # "elem" \/ attributes = <<>> THEN <<>>
    ELSE LET got == AttrGet(t, n, Head(attributes))
         IN (IF got.some THEN got.value \o <<NL>> ELSE <<>>)
            \o select_attributes(t, n, Tail(attributes))

RECURSIVE Indent(_)
Indent(depth) == IF depth = 0 THEN <<>> ELSE <<" ", " ">> \o Indent(depth - 1)

RECURSIVE PrettyNode(_, _, _)
RECURSIVE PrettyKids(_, _, _)
\* pretty_print::pretty_print: one line per tag and per text, indented by depth
PrettyNode(t, n, depth) ==
    CASE t[n].kind = "text" ->
            IF IsBlank(t[n].text) THEN <<>>
            ELSE Indent(depth) \o EscapeText(Trim(t[n].text)) \o <<NL>>
      [] t[n].kind = "doc" -> PrettyKids(t, t[n].kids, depth)
      [] t[n].kind = "elem" ->
            Indent(depth) \o <<LT>> \o t[n].tag \o SerializeAttrs(t[n].attrs)
            \o <<GT, NL>>
            \o (IF t[n].tag \in VoidTags THEN <<>>
                ELSE PrettyKids(t, t[n].kids, depth + 1) \o Indent(depth)
                     \o <<LT, "/">> \o t[n].tag \o <<GT, NL>>)

PrettyKids(t, kids, depth) ==
    IF kids = <<>> THEN <<>>
    ELSE PrettyNode(t, Head(kids), depth) \o PrettyKids(t, Tail(kids), depth)

pretty_print(t, n) == TrimEnd(PrettyNode(t, n, 0))

(***************************************************************************)
(* URLs and link rewriting (the url crate; link::detect_base and           *)
(* link::rewrite_relative_url).                                            *)
(***************************************************************************)
NoUrl == [some |-> FALSE, url |-> <<>>]
SomeUrl(u) == [some |-> TRUE, url |-> u]

SchemeChars == {"h", "t", "p", "s"}

\* whether s begins with a scheme and "://"
HasScheme(s) ==
    \E i \in 2..Len(s) :
        /\ s[i] = ":"
        /\ \A j \in 1..(i - 1) : s[j] \in SchemeChars
        /\ Len(s) >= i + 2 /\ s[i + 1] = "/" /\ s[i + 2] = "/"

\* Url::parse(s).ok(): only an absolute URL parses without a base
UrlParse(s) == IF HasScheme(s) THEN SomeUrl(s) ELSE NoUrl

\* a.or(b) on options
OrElse(a, b) == IF a.some THEN a ELSE b

\* scheme://host of an absolute URL: up to the third slash
Origin(u) ==
    LET slashes == {i \in 1..Len(u) : u[i] = "/"}
        third == {i \in slashes : Cardinality({j \in slashes : j < i}) = 2}
    IN IF third = {} THEN u ELSE SubSeq(u, 1, (CHOOSE i \in third : TRUE) - 1)

\* the URL up to and including its last slash
Directory(u) ==
    LET slashes == {i \in 1..Len(u) : u[i] = "/"}
    IN SubSeq(u, 1, CHOOSE i \in slashes : \A j \in slashes : j <= i)

\* Url::join for the references of the model: a path from the root, or a
\* path relative to the base's directory
UrlJoin(b, ref) ==
    IF Head(ref) = "/" THEN Origin(b) \o ref ELSE Directory(b) \o ref

\* link::detect_base: the href of the first base element that has one
detect_base(t) ==
    LET bases == {n \in Nodes(t) : t[n].kind = "elem" /\ t[n].tag = TagBase
                                   /\ AttrGet(t, n, AttrHref).some}
    IN IF bases = {} THEN NoUrl
       ELSE UrlParse(AttrGet(t, CHOOSE n \in bases : \A m \in bases : n <= m,
                             AttrHref).value)

LinkAttrs == {AttrHref, AttrSrc}

\* one attribute after rewriting: a relative href or src is resolved
RewriteAttr(a, b) ==
    IF a.name \in LinkAttrs /\ a.value # <<>> /\ ~HasScheme(a.value)
    THEN [a EXCEPT !.value = UrlJoin(b, a.value)]
    ELSE a

\* link::rewrite_relative_url: every href and src of the subtree of n
rewrite_relative_url(t, n, b) ==
    LET sub == {Descendants(t, n)[i] : i \in 1..Len(Descendants(t, n))}
    IN [m \in Nodes(t) |->
          IF m \in sub
          THEN [t[m] EXCEPT !.attrs =
                   [i \in 1..Len(t[m].attrs) |-> RewriteAttr(t[m].attrs[i], b)]]
          ELSE t[m]]

(***************************************************************************)
(* The JSON reader and writer used by compaction (serde_json::from_str and *)
(* serde_json::to_string on serde_json::Value).  A value is a record       *)
(* [t, v]: t is "num" (v its digits), "str" (v its characters), "lit" (v   *)
(* the literal), "arr" (v the items) or "obj" (v the key/value pairs,      *)
(* sorted by key, one per key).  Covered: unsigned integers below 2^64,    *)
(* the escapes \" \\ \/ \n \r \t \f, the three literals, arrays and        *)
(* objects.                                                                *)
(***************************************************************************)
JsonFail == [ok |-> FALSE, v |-> <<>>, i |-> 0]
JsonOk(v, i) == [ok |-> TRUE, v |-> v, i |-> i]

Digits == {"0", "1", "2", "3", "4", "5", "6", "7", "8", "9"}

\* the longest run of digits read as a number: every run this long fits the
\* unsigned 64-bit integer the parser keeps, and is written back digit for digit
MaxDigits == 19

\* JSON's own whitespace
IsJsonWs(c) == c \in {" ", NL, CR, TAB}

RECURSIVE SkipWs(_, _)
\* the first position at or after i that holds no JSON whitespace
SkipWs(s, i) == IF i <= Len(s) /\ IsJsonWs(s[i]) THEN SkipWs(s, i + 1) ELSE i

RECURSIVE DigitsEnd(_, _)
\* the first position at or after i that holds no digit
DigitsEnd(s, i) == IF i <= Len(s) /\ s[i] \in Digits THEN DigitsEnd(s, i + 1) ELSE i

\* whether t occurs in s at position i
At(s, i, t) == i + Len(t) - 1 <= Len(s) /\ SubSeq(s, i, i + Len(t) - 1) = t

\* the printable ASCII characters, from code point 32 on (code point 96, which
\* a TLA+ string cannot hold, is written "grave")
Ascii ==
    << " ", "!", QUOTE, "#", "$", "%", "&", "'", "(", ")", "*", "+",
       ",", "-", ".", "/", "0", "1", "2", "3", "4", "5", "6", "7",
       "8", "9", ":", ";", "<", "=", ">", "?", "@", "A", "B", "C",
       "D", "E", "F", "G", "H", "I", "J", "K", "L", "M", "N", "O",
       "P", "Q", "R", "S", "T", "U", "V", "W", "X", "Y", "Z", "[",
       BSL, "]", "^", "_", "grave", "a", "b", "c", "d", "e", "f", "g",
       "h", "i", "j", "k", "l", "m", "n", "o", "p", "q", "r", "s",
       "t", "u", "v", "w", "x", "y", "z", "{", "|", "}", "~" >>

\* the code point of a character
CharCode(c) ==
    CASE c = TAB -> 9
      [] c = NL -> 10
      [] c = CR -> 13
      [] OTHER -> 31 + (CHOOSE i \in 1..Len(Ascii) : Ascii[i] = c)

RECURSIVE KeyLess(_, _)
\* the ordering of keys: a sorts before b
KeyLess(a, b) ==
    IF b = <<>> THEN FALSE
    ELSE IF a = <<>> THEN TRUE
    ELSE IF Head(a) = Head(b) THEN KeyLess(Tail(a), Tail(b))
    ELSE CharCode(Head(a)) < CharCode(Head(b))

RECURSIVE MapInsert(_, _, _)
\* Map::insert on a map kept sorted by key: a later value replaces an earlier
MapInsert(pairs, k, v) ==
    IF pairs = <<>> THEN << <<k, v>> >>
    ELSE IF Head(pairs)[1] = k THEN << <<k, v>> >> \o Tail(pairs)
    ELSE IF KeyLess(k, Head(pairs)[1]) THEN << <<k, v>> >> \o pairs
    ELSE <<Head(pairs)>> \o MapInsert(Tail(pairs), k, v)

RECURSIVE JsonString(_, _, _)
\* the rest of a string whose opening quote has been read; acc is its content
JsonString(s, i, acc) ==
    IF i > Len(s) THEN JsonFail
    ELSE IF s[i] = QUOTE THEN JsonOk([t |-> "str", v |-> acc], i + 1)
    ELSE IF s[i] = BSL
    THEN IF i + 1 > Len(s) THEN JsonFail
         ELSE CASE s[i + 1] \in {QUOTE, BSL, "/"} ->
                      JsonString(s, i + 2, Append(acc, s[i + 1]))
                [] s[i + 1] = "n" -> JsonString(s, i + 2, Append(acc, NL))
                [] s[i + 1] = "r" -> JsonString(s, i + 2, Append(acc, CR))
                [] s[i + 1] = "t" -> JsonString(s, i + 2, Append(acc, TAB))
                [] s[i + 1] = "f" -> JsonString(s, i + 2, Append(acc, FF))
                [] OTHER -> JsonFail
    ELSE IF IsControl(s[i]) THEN JsonFail
    ELSE JsonString(s, i + 1, Append(acc, s[i]))

\* a number: 0, or a digit run that does not start with 0
JsonNumber(s, i) ==
    LET j == IF s[i] = "0" THEN i + 1 ELSE DigitsEnd(s, i)
    IN IF j - i > MaxDigits THEN JsonFail
       ELSE JsonOk([t |-> "num", v |-> SubSeq(s, i, j - 1)], j)

JsonLiterals == { <<"t","r","u","e">>, <<"f","a","l","s","e">>, <<"n","u","l","l">> }

RECURSIVE JsonValue(_, _)
RECURSIVE JsonItems(_, _, _)
RECURSIVE JsonMembers(_, _, _)
\* one value starting at or after position i
JsonValue(s, i) ==
    LET j == SkipWs(s, i)
    IN IF j > Len(s) THEN JsonFail
       ELSE CASE s[j] = QUOTE -> JsonString(s, j + 1, <<>>)
              [] s[j] \in Digits -> JsonNumber(s, j)
              [] s[j] = "[" ->
                    IF SkipWs(s, j + 1) <= Len(s) /\ s[SkipWs(s, j + 1)] = "]"
                    THEN JsonOk([t |-> "arr", v |-> <<>>], SkipWs(s, j + 1) + 1)
                    ELSE JsonItems(s, j + 1, <<>>)
              [] s[j] = "{" ->
                    IF SkipWs(s, j + 1) <= Len(s) /\ s[SkipWs(s, j + 1)] = "}"
                    THEN JsonOk([t |-> "obj", v |-> <<>>], SkipWs(s, j + 1) + 1)
                    ELSE JsonMembers(s, j + 1, <<>>)
              [] \E lit \in JsonLiterals : At(s, j, lit) ->
                    LET lit == CHOOSE l \in JsonLiterals : At(s, j, l)
                    IN JsonOk([t |-> "lit", v |-> lit], j + Len(lit))
              [] OTHER -> JsonFail

\* the items of an array from position i on; acc holds those already read
JsonItems(s, i, acc) ==
    LET item == JsonValue(s, i)
        j == SkipWs(s, item.i)
    IN IF ~item.ok \/ j > Len(s) THEN JsonFail
       ELSE IF s[j] = "," THEN JsonItems(s, j + 1, Append(acc, item.v))
       ELSE IF s[j] = "]" THEN JsonOk([t |-> "arr", v |-> Append(acc, item.v)], j + 1)
       ELSE JsonFail

\* the members of an object from position i on; acc holds those already read
JsonMembers(s, i, acc) ==
    LET k == SkipWs(s, i)
        key == IF k <= Len(s) /\ s[k] = QUOTE THEN JsonString(s, k + 1, <<>>)
               ELSE JsonFail
        c == SkipWs(s, key.i)
        val == IF key.ok /\ c <= Len(s) /\ s[c] = ":" THEN JsonValue(s, c + 1)
               ELSE JsonFail
        j == SkipWs(s, val.i)
    IN IF ~val.ok \/ j > Len(s) THEN JsonFail
       ELSE IF s[j] = "," THEN JsonMembers(s, j + 1, MapInsert(acc, key.v.v, val.v))
       ELSE IF s[j] = "}"
       THEN JsonOk([t |-> "obj", v |-> MapInsert(acc, key.v.v, val.v)], j + 1)
       ELSE JsonFail

\* serde_json::from_str: one value, then nothing but whitespace
JsonParse(s) ==
    LET r == JsonValue(s, 1)
    IN IF r.ok /\ SkipWs(s, r.i) > Len(s) THEN r ELSE JsonFail

RECURSIVE JsonEscape(_)
\* the writer's escaping of a string's content
JsonEscape(s) ==
    IF s = <<>> THEN <<>>
    ELSE (CASE Head(s) = QUOTE -> <<BSL, QUOTE>>
            [] Head(s) = BSL -> <<BSL, BSL>>
            [] Head(s) = NL -> <<BSL, "n">>
            [] Head(s) = CR -> <<BSL, "r">>
            [] Head(s) = TAB -> <<BSL, "t">>
            [] Head(s) = FF -> <<BSL, "f">>
            [] OTHER -> <<Head(s)>>) \o JsonEscape(Tail(s))

RECURSIVE JsonToString(_)
RECURSIVE JsonItemsToString(_)
RECURSIVE JsonMembersToString(_)
\* serde_json::to_string: the value with no whitespace between tokens
JsonToString(val) ==
    CASE val.t = "str" -> <<QUOTE>> \o JsonEscape(val.v) \o <<QUOTE>>
      [] val.t = "arr" -> <<"[">> \o JsonItemsToString(val.v) \o <<"]">>
      [] val.t = "obj" -> <<"{">> \o JsonMembersToString(val.v) \o <<"}">>
      [] OTHER -> val.v

JsonItemsToString(items) ==
    IF items = <<>> THEN <<>>
    ELSE JsonToString(Head(items))
         \o (IF Len(items) > 1 THEN <<",">> ELSE <<>>)
         \o JsonItemsToString(Tail(items))

JsonMembersToString(pairs) ==
    IF pairs = <<>> THEN <<>>
    ELSE <<QUOTE>> \o JsonEscape(Head(pairs)[1]) \o <<QUOTE, ":">>
         \o JsonToString(Head(pairs)[2])
         \o (IF Len(pairs) > 1 THEN <<",">> ELSE <<>>)
         \o JsonMembersToString(Tail(pairs))

(***************************************************************************)
(* Compaction (lib.rs, the `if config.compact` block of process_html).     *)
(***************************************************************************)
\* FixStep with the escape flag cleared by every character but never set: a
\* backslash is an ordinary character
FixStepNoEscape(st, c) ==
    IF c = QUOTE
    THEN [st EXCEPT !.fixed = Append(@, c), !.in_string = ~st.in_string,
                    !.escape_next = FALSE]
    ELSE IF st.in_string /\ IsControl(c)
    THEN [st EXCEPT !.fixed = @ \o (CASE c = NL -> <<BSL, "n">>
                                      [] c = CR -> <<BSL, "r">>
                                      [] c = TAB -> <<BSL, "t">>
                                      [] OTHER -> <<>>),
                    !.escape_next = FALSE]
    ELSE [st EXCEPT !.fixed = Append(@, c), !.escape_next = FALSE]

\* one turn of the repair loop, on character c; st holds fixed and the flags
\* in_string and escape_next
FixStep(st, c) ==
    IF st.escape_next
    THEN [st EXCEPT !.fixed = Append(@, c), !.escape_next = FALSE]
    ELSE IF c = BSL
    THEN [st EXCEPT !.fixed = Append(@, c), !.escape_next = TRUE]
    ELSE IF c = QUOTE
    THEN [st EXCEPT !.fixed = Append(@, c), !.in_string = ~st.in_string]
    ELSE IF st.in_string /\ IsControl(c)
    THEN [st EXCEPT !.fixed = @ \o (CASE c = NL -> <<BSL, "n">>
                                      [] c = CR -> <<BSL, "r">>
                                      [] c = TAB -> <<BSL, "t">>
                                      [] OTHER -> <<>>)]
    ELSE [st EXCEPT !.fixed = Append(@, c)]

RECURSIVE FixScan(_, _, _, _)
\* for c in trimmed.chars(): FixStep over s[lo..hi], left to right.  The
\* range is halved, and the left half is computed (the test on left) before
\* the right half is read, to keep evaluation shallow.
FixScan(s, lo, hi, st) ==
    IF lo > hi THEN st
    ELSE IF lo = hi THEN FixStep(st, s[lo])
    ELSE LET left == FixScan(s, lo, (lo + hi) \div 2, st)
         IN IF Len(left.fixed) >= 0 THEN FixScan(s, (lo + hi) \div 2 + 1, hi, left)
            ELSE left

\* let mut fixed = String::with_capacity(..); let mut in_string = false;
\* let mut escape_next = false
ScanStart == [fixed |-> <<>>, in_string |-> FALSE, escape_next |-> FALSE]

\* the repair pass: the text with the control characters inside strings escaped
FixControlChars(s) == FixScan(s, 1, Len(s), ScanStart).fixed

\* the two parse attempts: the trimmed text, then the repaired text
ParseAttempts(text) ==
    LET trimmed == Trim(text)
        direct == JsonParse(trimmed)
    IN IF direct.ok THEN direct
       ELSE JsonParse(FixControlChars(trimmed))

\* s without its first character when that is whitespace
StripOne(s) == IF s # <<>> /\ IsWs(Head(s)) THEN Tail(s) ELSE s

\* MinifyMarkup stripping one whitespace character per piece, not the run
MinifyMarkupOneChar(text) ==
    LET pieces == SplitOn(text, GT)
    IN JoinWith([i \in 1..Len(pieces) |-> StripOne(pieces[i])], GT)

\* MinifyMarkup trimming both ends of every piece
MinifyMarkupBothEnds(text) ==
    LET pieces == SplitOn(text, GT)
    IN JoinWith([i \in 1..Len(pieces) |-> Trim(pieces[i])], GT)

\* MinifyMarkup with '>' written after every piece instead of between pieces
MinifyMarkupClosing(text) ==
    LET pieces == SplitOn(text, GT)
    IN Concat([i \in 1..Len(pieces) |-> TrimStart(pieces[i]) \o <<GT>>])

\* the fallback: split on '>', trim the start of every piece, join with '>'
MinifyMarkup(text) ==
    LET pieces == SplitOn(text, GT)
    IN JoinWith([i \in 1..Len(pieces) |-> TrimStart(pieces[i])], GT)

\* the branch compaction takes on a text
CompactBranch(text) == IF ParseAttempts(text).ok THEN "json" ELSE "markup"

\* the compaction step
Compact(text) ==
    IF ParseAttempts(text).ok THEN JsonToString(ParseAttempts(text).v)
    ELSE MinifyMarkup(text)

(***************************************************************************)
(* The match iterator and pruning (lib.rs process_html, the for loop over  *)
(* document.select and the loop over node.select).                         *)
(***************************************************************************)
RECURSIVE SelectNext(_, _, _, _)
\* Select::next: advance the traversal to the next element sel matches.
\* found is that element (0 when the traversal is exhausted), iter the state
\* the traversal is left in.
SelectNext(t, edge, root, sel) ==
    IF edge = NoEdge THEN [found |-> 0, iter |-> NoEdge]
    ELSE LET after == TraverseNext(t, edge, root)
         IN IF edge.e = "Start" /\ Matches(t, edge.n, sel)
            THEN [found |-> edge.n, iter |-> after]
            ELSE SelectNext(t, after, root, sel)

RECURSIVE DetachTargets(_, _, _, _)
\* for target in targets { target.as_node().detach() }
DetachTargets(t, edge, root, sel) ==
    LET r == SelectNext(t, edge, root, sel)
    IN IF r.found = 0 THEN t
       ELSE DetachTargets(Detach(t, r.found), r.iter, root, sel)

\* if let Ok(targets) = node.select(&remove_nodes.join(",")) { ... }
PruneMatch(t, n, remove_nodes) ==
    IF ParseSelectorList(remove_nodes).ok
    THEN DetachTargets(t, StartEdge(n), n, ParseSelectorList(remove_nodes))
    ELSE t

\* ResolveBaseUrl with the explicit base tried before detection
ResolveBaseUrlGivenFirst(t, cfg) ==
    CASE cfg.base.some /\ cfg.detect_base -> OrElse(UrlParse(cfg.base.s), detect_base(t))
      [] cfg.base.some /\ ~cfg.detect_base -> UrlParse(cfg.base.s)
      [] ~cfg.base.some /\ cfg.detect_base -> detect_base(t)
      [] OTHER -> NoUrl

\* the base URL of the run
ResolveBaseUrl(t, cfg) ==
    CASE cfg.base.some /\ cfg.detect_base -> OrElse(detect_base(t), UrlParse(cfg.base.s))
      [] cfg.base.some /\ ~cfg.detect_base -> UrlParse(cfg.base.s)
      [] ~cfg.base.some /\ cfg.detect_base -> detect_base(t)
      [] OTHER -> NoUrl

\* OutputMode with the text_only test ahead of the attribute-list test
OutputModeTextFirst(cfg) ==
    IF cfg.text_only THEN "text"
    ELSE IF cfg.attributes # <<>> THEN "attributes"
    ELSE IF cfg.pretty_print THEN "pretty"
    ELSE "raw"

\* the output mode of a match: the first of the four tests that applies
OutputMode(cfg) ==
    IF cfg.attributes # <<>> THEN "attributes"
    ELSE IF cfg.text_only THEN "text"
    ELSE IF cfg.pretty_print THEN "pretty"
    ELSE "raw"

\* what one match appends to the output
SerializeMatch(t, n, cfg) ==
    CASE OutputMode(cfg) = "attributes" -> select_attributes(t, n, cfg.attributes)
      [] OutputMode(cfg) = "text" -> serialize_text(t, n, cfg.ignore_whitespace) \o <<NL>>
      [] OutputMode(cfg) = "pretty" -> pretty_print(t, n) \o <<NL>>
      [] OTHER -> SerializeNode(t, n) \o <<NL>>

(***************************************************************************)
(* Configurations and inputs of the model.                                 *)
(***************************************************************************)
NoString == [some |-> FALSE, s |-> <<>>]
SomeString(s) == [some |-> TRUE, s |-> s]

SelectorStrings == {"div", "#a", ".r", ":root", "h1", "["}
RemoveLists == { <<>>, <<".r">>, <<"i", "b">>, <<".r", "[">> }
BaseStrings == {NoString, SomeString(UrlGiven), SomeString(UrlBad)}
AttributeLists == { <<>>, <<AttrId, AttrHref>>, <<AttrClass>> }

Configs ==
    [selector : SelectorStrings, base : BaseStrings, detect_base : BOOLEAN,
     text_only : BOOLEAN, ignore_whitespace : BOOLEAN, pretty_print : BOOLEAN,
     remove_nodes : RemoveLists, attributes : AttributeLists, compact : BOOLEAN]

Pending == [kind |-> "Pending", text |-> <<>>, error |-> ""]
Ok(text) == [kind |-> "Ok", text |-> text, error |-> ""]
Err(msg) == [kind |-> "Err", text |-> <<>>, error |-> msg]

\* a line of the run's log: the step taken, the match it worked on (0 for
\* none), the base URL in force and the length of the output when it began
Step(name, n) == [step |-> name, node |-> n, base |-> base, at |-> Len(output)]

(***************************************************************************)
(* process_html as a state machine.                                        *)
(***************************************************************************)
Init ==
    /\ html \in Inputs
    /\ config \in Configs
    /\ tree = NoTree
    /\ base = NoUrl
    /\ iter = NoEdge
    /\ cur = 0
    /\ output = <<>>
    /\ result = Pending
    /\ pc = "Parse"
    /\ log = <<>>

\* let document = kuchikiki::parse_html().one(html)
Parse ==
    /\ pc = "Parse"
    /\ tree' = ParseHtml(html)
    /\ pc' = "ResolveBase"
    /\ log' = Append(log, Step("Parse", 0))
    /\ UNCHANGED <<html, config, base, iter, cur, output, result>>

\* let base: Option<Url> = match (&config.base, &config.detect_base) { ... }
ResolveBase ==
    /\ pc = "ResolveBase"
    /\ base' = ResolveBaseUrl(tree, config)
    /\ pc' = "Select"
    /\ log' = Append(log, [Step("ResolveBase", 0) EXCEPT !.base = base'])
    /\ UNCHANGED <<html, config, tree, iter, cur, output, result>>

\* SelectFail with the selector error swallowed: the run goes on with no match
SelectFailSwallowed ==
    /\ pc = "Select"
    /\ ~ParseSelector(config.selector).ok
    /\ pc' = "Collect"
    /\ log' = Append(log, Step("Select", 0))
    /\ UNCHANGED <<html, config, tree, base, iter, cur, output, result>>

\* document.select(&config.selector).map_err(|_| "Failed to parse CSS selector")?
SelectFail ==
    /\ pc = "Select"
    /\ ~ParseSelector(config.selector).ok
    /\ result' = Err("Failed to parse CSS selector")
    /\ pc' = "Done"
    /\ log' = Append(log, Step("Select", 0))
    /\ UNCHANGED <<html, config, tree, base, iter, cur, output>>

SelectOk ==
    /\ pc = "Select"
    /\ ParseSelector(config.selector).ok
    /\ iter' = StartEdge(1)
    /\ pc' = "NextMatch"
    /\ log' = Append(log, Step("Select", 0))
    /\ UNCHANGED <<html, config, tree, base, cur, output, result>>

\* the head of the for loop: the next match, or the end of the loop
NextMatch ==
    /\ pc = "NextMatch"
    /\ LET r == SelectNext(tree, iter, 1, ParseSelector(config.selector))
       IN /\ iter' = r.iter
          /\ cur' = r.found
          /\ pc' = IF r.found = 0 THEN "Collect" ELSE "Prune"
    /\ UNCHANGED <<html, config, tree, base, output, result, log>>

\* Prune with an unparsable remove list reported as an error
PruneOrFail ==
    /\ pc = "Prune"
    /\ IF ParseSelectorList(config.remove_nodes).ok
       THEN /\ tree' = PruneMatch(tree, cur, config.remove_nodes)
            /\ pc' = "RewriteLinks"
            /\ result' = result
       ELSE /\ tree' = tree
            /\ pc' = "Done"
            /\ result' = Err("Failed to parse CSS selector")
    /\ log' = Append(log, Step("Prune", cur))
    /\ UNCHANGED <<html, config, base, iter, cur, output>>

\* detach those nodes that should be removed
Prune ==
    /\ pc = "Prune"
    /\ tree' = PruneMatch(tree, cur, config.remove_nodes)
    /\ pc' = "RewriteLinks"
    /\ log' = Append(log, Step("Prune", cur))
    /\ UNCHANGED <<html, config, base, iter, cur, output, result>>

\* RewriteLinks run after the match has been written: the match is serialized
\* as pruned, and its links are rewritten afterwards
RewriteLinksLate ==
    /\ pc = "RewriteLinks"
    /\ output' = output \o SerializeMatch(tree, cur, config)
    /\ tree' = IF base.some THEN rewrite_relative_url(tree, cur, base.url) ELSE tree
    /\ pc' = "NextMatch"
    /\ log' = log \o <<Step("Serialize", cur), Step("RewriteLinks", cur)>>
    /\ UNCHANGED <<html, config, base, iter, cur, result>>

\* if let Some(base) = &base { link::rewrite_relative_url(node, base) }
RewriteLinks ==
    /\ pc = "RewriteLinks"
    /\ tree' = IF base.some THEN rewrite_relative_url(tree, cur, base.url) ELSE tree
    /\ pc' = "Serialize"
    /\ log' = Append(log, Step("RewriteLinks", cur))
    /\ UNCHANGED <<html, config, base, iter, cur, output, result>>

\* the four writes of the loop body, each followed by continue
Serialize ==
    /\ pc = "Serialize"
    /\ output' = output \o SerializeMatch(tree, cur, config)
    /\ pc' = "NextMatch"
    /\ log' = Append(log, Step("Serialize", cur))
    /\ UNCHANGED <<html, config, tree, base, iter, cur, result>>

\* let mut result = String::from_utf8(output)?; then Ok(result) without compact
Collect ==
    /\ pc = "Collect"
    /\ result' = IF config.compact THEN Pending ELSE Ok(output)
    /\ pc' = IF config.compact THEN "Compact" ELSE "Done"
    /\ log' = Append(log, Step("Collect", 0))
    /\ UNCHANGED <<html, config, tree, base, iter, cur, output>>

\* if config.compact { ... }; Ok(result)
CompactOutput ==
    /\ pc = "Compact"
    /\ result' = Ok(Compact(output))
    /\ pc' = "Done"
    /\ log' = Append(log, Step("Compact", 0))
    /\ UNCHANGED <<html, config, tree, base, iter, cur, output>>

Next ==
    \/ Parse
    \/ ResolveBase
    \/ SelectFail
    \/ SelectOk
    \/ NextMatch
    \/ Prune
    \/ RewriteLinks
    \/ Serialize
    \/ Collect
    \/ CompactOutput

Spec == Init /\ [][Next]_vars

(***************************************************************************)
(* Helpers of the properties.                                              *)
(***************************************************************************)
\* the tree of the input as parsed, before any step changed it
Parsed == ParseHtml(html)

\* the last line of the log
LastStep == log[Len(log)]

\* a match has just been serialized
JustSerialized == pc = "NextMatch" /\ log # <<>> /\ LastStep.step = "Serialize"

\* what the match just serialized added to the output
LastChunk == SubSeq(output, LastStep.at + 1, Len(output))

\* the lines attribute extraction owes for node n: for each requested name,
\* in the order requested, the value of the attribute of that name if n has one
AttrLines(t, n, names) ==
    Concat([i \in 1..Len(names) |->
               IF \E j \in 1..Len(t[n].attrs) : t[n].attrs[j].name = names[i]
               THEN t[n].attrs[CHOOSE j \in 1..Len(t[n].attrs) :
                                   t[n].attrs[j].name = names[i]].value \o <<NL>>
               ELSE <<>>])

\* the text chunks of the subtree of n in document order
TextChunks(t, n) ==
    LET d == Descendants(t, n)
    IN [i \in 1..Len(d) |-> IF t[d[i]].kind = "text" THEN t[d[i]].text ELSE <<>>]

\* a chunk that holds a character that is not whitespace
HasInk(chunk) == \E i \in 1..Len(chunk) : ~IsWs(chunk[i])

(***************************************************************************)
(* C1.  Every match is written in exactly one mode, chosen by the fixed    *)
(* precedence attribute list non-empty > text_only > pretty_print > raw:   *)
(* with a non-empty attribute list the match adds to the output only the   *)
(* values of the requested attributes it carries, one per line, in the     *)
(* order requested, whatever text_only and pretty_print are; with an empty *)
(* list text_only wins over pretty_print.                                  *)
(***************************************************************************)
C1_ModePrecedence ==
    JustSerialized =>
        LET n == LastStep.node
        IN /\ config.attributes # <<>> =>
                 LastChunk = AttrLines(tree, n, config.attributes)
           /\ config.attributes = <<>> /\ config.text_only =>
                 LastChunk = serialize_text(tree, n, config.ignore_whitespace) \o <<NL>>
           /\ config.attributes = <<>> /\ ~config.text_only /\ config.pretty_print =>
                 LastChunk = pretty_print(tree, n) \o <<NL>>
           /\ config.attributes = <<>> /\ ~config.text_only /\ ~config.pretty_print =>
                 LastChunk = SerializeNode(tree, n) \o <<NL>>

\* a match that carries one requested attribute and lacks the other has been
\* written in attribute mode although text_only and pretty_print are both set
C1_Witness ==
    /\ JustSerialized
    /\ config.attributes = <<AttrId, AttrHref>>
    /\ config.text_only /\ config.pretty_print
    /\ AttrGet(tree, LastStep.node, AttrId).some
    /\ ~AttrGet(tree, LastStep.node, AttrHref).some
    /\ LastChunk = <<"a", NL>>

(***************************************************************************)
(* C8.  With a main selector that does not parse, process_html returns an  *)
(* error and no output, whatever the other fields of the configuration     *)
(* are: no match is pruned, rewritten, serialized or compacted first.      *)
(***************************************************************************)
C8_SelectorErrorAborts ==
    ~ParseSelector(config.selector).ok =>
        /\ output = <<>>
        /\ pc \in {"Parse", "ResolveBase", "Select", "Done"}
        /\ pc # "Parse" => tree = Parsed
        /\ \A i \in 1..Len(log) : log[i].step \in {"Parse", "ResolveBase", "Select"}
        /\ pc = "Done" => result = Err("Failed to parse CSS selector")

\* a run with an unparsable selector has ended, with pruning, a base and
\* compaction all configured
C8_Witness ==
    /\ pc = "Done"
    /\ ~ParseSelector(config.selector).ok
    /\ result.kind = "Err"
    /\ config.compact /\ config.remove_nodes = <<".r">> /\ base.some
    /\ config.attributes # <<>>

\* the selector parses and no node of the document matches it
MatchesNothing ==
    /\ ParseSelector(config.selector).ok
    /\ \A n \in Nodes(Parsed) : ~Matches(Parsed, n, ParseSelector(config.selector))

(***************************************************************************)
(* C9.  With a selector that parses and matches no node of the document,   *)
(* process_html raises no error and returns the empty text, whatever the   *)
(* mode flags, the remove list, the base settings and compact are.         *)
(***************************************************************************)
C9_NoMatchEmptyOutput ==
    MatchesNothing =>
        /\ result.kind # "Err"
        /\ output = <<>>
        /\ pc = "Done" => result = Ok(<<>>)

\* a run whose selector matched nothing has ended, with compaction requested
C9_Witness ==
    /\ pc = "Done"
    /\ MatchesNothing
    /\ config.compact /\ config.remove_nodes # <<>> /\ config.text_only
    /\ result = Ok(<<>>)

\* the remove list is given and is not a selector list
RemoveListUnparsable ==
    config.remove_nodes # <<>> /\ ~ParseSelectorList(config.remove_nodes).ok

(***************************************************************************)
(* C2.  As claimed: if the configured remove-selector list cannot be       *)
(* parsed as a selector, process_html ends in a terminal failure and       *)
(* returns an error to the caller.                                         *)
(***************************************************************************)
C2_RemoveErrorAborts ==
    /\ pc = "Done"
    /\ RemoveListUnparsable
    /\ \E i \in 1..Len(log) : log[i].step = "Prune"
    => result.kind = "Err" /\ output = <<>>

\* no node has been detached: every node has the parent and children it was
\* parsed with
LinksIntact ==
    \A n \in Nodes(Parsed) :
        tree[n].parent = Parsed[n].parent /\ tree[n].kids = Parsed[n].kids

(***************************************************************************)
(* C2, as amended.  If the configured remove-selector list cannot be       *)
(* parsed as a selector, process_html reports no error on that account:    *)
(* pruning is skipped for every match (no node is detached), the matches   *)
(* are serialized as they stand, and the run returns its output; the only  *)
(* selector error of a run is the main selector's.                         *)
(***************************************************************************)
C2_RemoveErrorIgnored ==
    ~ParseSelectorList(config.remove_nodes).ok =>
        /\ pc # "Parse" => LinksIntact
        /\ result.kind = "Err" => ~ParseSelector(config.selector).ok
        /\ pc = "Done" /\ ParseSelector(config.selector).ok =>
              result.kind = "Ok" /\ (~config.compact => result.text = output)

\* a run whose remove list does not parse has ended with matches written
C2_Witness ==
    /\ pc = "Done"
    /\ RemoveListUnparsable
    /\ html = "prune" /\ config.selector = "div"
    /\ \E i \in 1..Len(log) : log[i].step = "Prune"
    /\ result.kind = "Ok" /\ result.text # <<>>

(***************************************************************************)
(* C3.  As claimed: once a match has been pruned, every node of its        *)
(* subtree that matches a configured remove selector has been detached, so *)
(* no node matching a remove selector is in what is serialized for any     *)
(* match (several targets, sibling or nested matches, every output mode);  *)
(* with an empty remove list pruning changes nothing.                      *)
(***************************************************************************)
C3_PrunedNodesNeverWritten ==
    /\ pc = "Serialize" /\ ParseSelectorList(config.remove_nodes).ok =>
          \A i \in 1..Len(Descendants(tree, cur)) :
              ~Matches(tree, Descendants(tree, cur)[i],
                       ParseSelectorList(config.remove_nodes))
    /\ pc # "Parse" /\ config.remove_nodes = <<>> => LinksIntact

\* no attribute of the document has been rewritten
AttrsIntact == \A n \in Nodes(Parsed) : tree[n].attrs = Parsed[n].attrs

(***************************************************************************)
(* C4.  The base URL of a run: explicit base and detect_base both given -> *)
(* the URL detected in the document if detection succeeds, otherwise the   *)
(* parsed explicit string; explicit base only -> the parsed explicit       *)
(* string, or no base (and no error) if it does not parse; detect_base     *)
(* only -> the detected URL or none; neither -> no base.  With no base,    *)
(* link rewriting is skipped for every match of the run.                   *)
(***************************************************************************)
C4_BaseResolution ==
    pc \notin {"Parse", "ResolveBase"} =>
        LET detected == detect_base(Parsed)
            given == config.base
            explicit == IF given.s = UrlGiven THEN SomeUrl(UrlGiven) ELSE NoUrl
        IN /\ detected = IF html = "links" THEN SomeUrl(UrlDoc) ELSE NoUrl
           /\ given.some /\ config.detect_base =>
                 base = IF detected.some THEN detected ELSE explicit
           /\ given.some /\ ~config.detect_base => base = explicit
           /\ ~given.some /\ config.detect_base => base = detected
           /\ ~given.some /\ ~config.detect_base => base = NoUrl
           /\ ~base.some => AttrsIntact
           /\ result.kind = "Err" => ~ParseSelector(config.selector).ok

\* both an explicit base and detection were given, detection won, and a link
\* of a match has been rewritten against the detected URL
C4_Witness ==
    /\ pc = "Done"
    /\ html = "links"
    /\ config.base = SomeString(UrlGiven) /\ config.detect_base
    /\ base = SomeUrl(UrlDoc)
    /\ AttrGet(tree, 7, AttrHref).value = Origin(UrlDoc) \o UrlRel

\* the scenario of the text mode has run to its end
TextScenario ==
    /\ pc = "Done"
    /\ html = "scenario" /\ config.selector = "#a"
    /\ config.attributes = <<>> /\ config.text_only /\ ~config.compact

(***************************************************************************)
(* C5.  As claimed: in text-only mode with ignore_whitespace set the       *)
(* output for a match is exactly its non-blank text chunks in document     *)
(* order, each followed by one newline, and nothing else: for              *)
(* <div id="a">X<span> Y </span></div> and selector #a the output is       *)
(* "X\n Y \n"; with ignore_whitespace unset it is "X Y \n".                *)
(***************************************************************************)
C5_TextOnlyExact ==
    TextScenario =>
        result = Ok(IF config.ignore_whitespace
                    THEN <<"X", NL, " ", "Y", " ", NL>>
                    ELSE <<"X", " ", "Y", " ", NL>>)

\* the text mode's due for node n, chunk by chunk
ExpectedText(t, n, ignore_whitespace) ==
    LET chunks == TextChunks(t, n)
    IN Concat([i \in 1..Len(chunks) |->
                  IF ~ignore_whitespace THEN chunks[i]
                  ELSE IF HasInk(chunks[i]) THEN chunks[i] \o <<NL>>
                  ELSE <<>>])

(***************************************************************************)
(* C5, as amended.  In text-only mode with ignore_whitespace set the       *)
(* output for a match is its non-blank text chunks in document order, each *)
(* followed by one newline, and then the line terminator that ends every   *)
(* match: for the input above the output is "X\n Y \n\n".  With            *)
(* ignore_whitespace unset the chunks are concatenated with no separators  *)
(* and followed by one newline ("X Y \n").                                 *)
(***************************************************************************)
C5_TextOnlyTerminated ==
    /\ JustSerialized /\ config.attributes = <<>> /\ config.text_only =>
          LastChunk = ExpectedText(tree, LastStep.node, config.ignore_whitespace)
                      \o <<NL>>
    /\ TextScenario =>
          result = Ok(IF config.ignore_whitespace
                      THEN <<"X", NL, " ", "Y", " ", NL, NL>>
                      ELSE <<"X", " ", "Y", " ", NL>>)

\* the scenario has run with ignore_whitespace set
C5_Witness ==
    /\ TextScenario
    /\ config.ignore_whitespace
    /\ result = Ok(<<"X", NL, " ", "Y", " ", NL, NL>>)

\* the steps that may come right before a step
MayPrecede(step) ==
    CASE step = "Parse" -> {}
      [] step = "ResolveBase" -> {"Parse"}
      [] step = "Select" -> {"ResolveBase"}
      [] step = "Prune" -> {"Select", "Serialize"}
      [] step = "RewriteLinks" -> {"Prune"}
      [] step = "Serialize" -> {"RewriteLinks"}
      [] step = "Collect" -> {"Select", "Serialize"}
      [] step = "Compact" -> {"Collect"}

(***************************************************************************)
(* C10.  A run takes its steps in a fixed order: the base URL is resolved  *)
(* once, before any match is processed, and every match sees that value;   *)
(* for each match, in match-set order, pruning is followed by link         *)
(* rewriting and that by serialization of the same match; compaction, when *)
(* requested, runs exactly once, after the last match has been written, on *)
(* the whole concatenated output.                                          *)
(***************************************************************************)
C10_StepOrder ==
    /\ \A i \in 1..Len(log) :
          /\ (i = 1) = (log[i].step = "Parse")
          /\ i > 1 => log[i - 1].step \in MayPrecede(log[i].step)
          /\ log[i].step \in {"RewriteLinks", "Serialize"} =>
                log[i].node = log[i - 1].node
          /\ log[i].step = "Prune" /\ log[i - 1].step = "Serialize" =>
                log[i - 1].node < log[i].node
          /\ i > 2 => log[i].base = log[2].base
          /\ log[i].step = "Compact" => config.compact /\ log[i].at = Len(output)
    /\ pc \notin {"Parse", "ResolveBase"} => base = log[2].base
    /\ Cardinality({i \in 1..Len(log) : log[i].step = "Compact"}) <= 1
    /\ Cardinality({i \in 1..Len(log) : log[i].step = "ResolveBase"}) <= 1
    /\ pc = "Done" /\ result.kind = "Ok" =>
          /\ LastStep.step = IF config.compact THEN "Compact" ELSE "Collect"
          /\ result.text = IF config.compact THEN Compact(output) ELSE output

\* a run over three matches has ended with its compaction
C10_Witness ==
    /\ pc = "Done"
    /\ config.compact /\ base.some
    /\ Cardinality({i \in 1..Len(log) : log[i].step = "Serialize"}) = 3
    /\ LastStep.step = "Compact"

(***************************************************************************)
(* Compaction on its own: the step applied to a text, and applied again to *)
(* its own result.  html holds the text given, output the text the step    *)
(* is applied to, result what it made of it; the log counts applications.  *)
(***************************************************************************)
\* the longest text tried character by character
MaxLen == 4

\* how often the step is applied to its own result
Rounds == 2

CompactAlphabet == {LT, GT, " ", NL, "x", QUOTE, BSL, "[", "]", "1", ","}

\* <div>\n  <p>x</p>\n</div>
MarkupExample ==
    <<LT,"d","i","v",GT, NL, " "," ", LT,"p",GT, "x", LT,"/","p",GT, NL,
      LT,"/","d","i","v",GT>>

\* <div><p>x</p></div>
MarkupExampleCompacted ==
    <<LT,"d","i","v",GT, LT,"p",GT, "x", LT,"/","p",GT, LT,"/","d","i","v",GT>>

\* {"k":  "v \n w"} with a raw newline inside the string, and a line end
JsonExample ==
    <<"{", QUOTE,"k",QUOTE, ":", " ", " ", QUOTE,"v"," ",NL," ","w",QUOTE, "}", NL>>

\* {"x":1, "k":[1, 1], "x":"1"}
JsonObjectExample ==
    <<"{", QUOTE,"x",QUOTE,":","1", ",", " ", QUOTE,"k",QUOTE,":","[","1",",",
      " ","1","]", ",", " ", QUOTE,"x",QUOTE,":",QUOTE,"1",QUOTE, "}">>

\* <a title="a >  b"> x <b> y </b>\n</a>\n
TextExample ==
    <<LT,"a"," ","t","i","t","l","e","=",QUOTE,"a"," ",GT," "," ","b",QUOTE,GT,
      " ","x"," ", LT,"b",GT, " ","y"," ", LT,"/","b",GT, NL, LT,"/","a",GT, NL>>

Examples ==
    {MarkupExample, MarkupExampleCompacted, JsonExample, JsonObjectExample,
     TextExample}

Texts == UNION {[1..k -> CompactAlphabet] : k \in 0..MaxLen} \cup Examples

CompactOnly ==
    [selector |-> ":root", base |-> NoString, detect_base |-> FALSE,
     text_only |-> FALSE, ignore_whitespace |-> FALSE, pretty_print |-> FALSE,
     remove_nodes |-> <<>>, attributes |-> <<>>, compact |-> TRUE]

InitCompact ==
    /\ html \in Texts
    /\ output = html
    /\ config = CompactOnly
    /\ tree = NoTree
    /\ base = NoUrl
    /\ iter = NoEdge
    /\ cur = 0
    /\ result = Pending
    /\ pc = "Compact"
    /\ log = <<>>

\* the result of the step becomes the text of its next application
Recompact ==
    /\ pc = "Done"
    /\ Len(log) < Rounds
    /\ output' = result.text
    /\ pc' = "Compact"
    /\ UNCHANGED <<html, config, tree, base, iter, cur, result, log>>

NextCompact ==
    \/ CompactOutput
    \/ Recompact

SpecCompact == InitCompact /\ [][NextCompact]_vars

\* the step has been applied once to the text given
CompactedOnce == pc = "Done" /\ Len(log) = 1

\* the characters of s at the positions in keep, in order
Pick(s, keep) ==
    [k \in 1..Cardinality(keep) |->
        s[CHOOSE i \in keep : Cardinality({j \in keep : j < i}) = k - 1]]

\* position i of s holds whitespace of a run that starts the text or directly
\* follows a '>'
AfterGt(s, i) ==
    /\ IsWs(s[i])
    /\ \E j \in 0..(i - 1) :
          /\ j = 0 \/ s[j] = GT
          /\ \A k \in (j + 1)..i : IsWs(s[k])

\* position i of s lies in a text node: in a stretch between a '>' (or the
\* start) and the next '<' (or the end) that holds a character that is not
\* whitespace
InTextNode(s, i) ==
    /\ s[i] \notin {LT, GT}
    /\ LET marks == {j \in 1..Len(s) : s[j] \in {LT, GT}}
           from == IF \E j \in marks : j < i
                   THEN CHOOSE j \in marks : j < i /\ \A m \in marks : m < i => m <= j
                   ELSE 0
           to == IF \E j \in marks : j > i
                 THEN CHOOSE j \in marks : j > i /\ \A m \in marks : m > i => m >= j
                 ELSE Len(s) + 1
       IN /\ from = 0 \/ s[from] = GT
          /\ to = Len(s) + 1 \/ s[to] = LT
          /\ \E k \in (from + 1)..(to - 1) : ~IsWs(s[k])

(***************************************************************************)
(* C6.  Compaction is idempotent on its own output: applied to the result  *)
(* of compaction it yields the same text, whether the first application    *)
(* took the JSON branch or the markup branch.                              *)
(***************************************************************************)
C6_CompactIdempotent ==
    pc = "Done" /\ Len(log) >= 2 => result.text = output

\* a text has gone through the JSON branch, which changed it, and through the
\* step again
C6_Witness ==
    /\ pc = "Done" /\ Len(log) = 2
    /\ CompactBranch(html) = "json"
    /\ output # Trim(html)
    /\ result.text = output

(***************************************************************************)
(* C7.  As claimed: when compaction falls back to the markup branch, the   *)
(* only characters removed are whitespace that follows a '>' (or starts    *)
(* the text); whitespace inside text nodes is never touched, nor is        *)
(* whitespace before a '<', and the other characters keep their order.     *)
(***************************************************************************)
C7_FallbackSparesTextNodes ==
    CompactedOnce /\ CompactBranch(html) = "markup" =>
        /\ result.text = Pick(html, {i \in 1..Len(html) : ~AfterGt(html, i)})
        /\ \A i \in 1..Len(html) : InTextNode(html, i) => ~AfterGt(html, i)

(***************************************************************************)
(* C7, as amended.  When compaction falls back to the markup branch, the   *)
(* characters removed are exactly the whitespace of every run that starts  *)
(* the text or directly follows a '>', the leading whitespace of a text    *)
(* node that follows a tag included; every other character, whitespace     *)
(* elsewhere in text and before a '<' included, is kept, in order.         *)
(* <div>\n  <p>x</p>\n</div> becomes <div><p>x</p></div>.                  *)
(***************************************************************************)
C7_FallbackStripsAfterGt ==
    CompactedOnce /\ CompactBranch(html) = "markup" =>
        /\ result.text = Pick(html, {i \in 1..Len(html) : ~AfterGt(html, i)})
        /\ html = MarkupExample => result.text = MarkupExampleCompacted

\* the example of the claim has gone through the markup branch
C7_Witness ==
    /\ CompactedOnce
    /\ html = MarkupExample
    /\ CompactBranch(html) = "markup"
    /\ result.text = MarkupExampleCompacted

(***************************************************************************)
(* The repair pass character by character: the compaction block of         *)
(* process_html taken one statement at a time.  html holds the text given, *)
(* output the text under compaction, iter the locals of the scan (fixed,   *)
(* in_string, escape_next) and cur the number of characters of the trimmed *)
(* text the scan has consumed.                                             *)
(***************************************************************************)
\* the longest text scanned character by character
MaxScan == 5

RepairAlphabet == {QUOTE, BSL, NL, TAB, FF, "x"}

\* {"k":"a\\<CR>b\"<TAB>"}: an escaped backslash before a raw carriage
\* return, and an escaped quote before a raw tab, inside one string
EscapesExample ==
    <<"{", QUOTE,"k",QUOTE, ":", QUOTE, "a", BSL, BSL, CR, "b", BSL, QUOTE, TAB,
      QUOTE, "}">>

\* {"k":"v \n w"} with the newline escaped
JsonExampleCompacted ==
    <<"{", QUOTE,"k",QUOTE, ":", QUOTE,"v"," ",BSL,"n"," ","w",QUOTE, "}">>

RepairTexts ==
    UNION {[1..k -> RepairAlphabet] : k \in 0..MaxScan}
        \cup {JsonExample, EscapesExample, MarkupExample}

InitRepair ==
    /\ html \in RepairTexts
    /\ output = html
    /\ config = CompactOnly
    /\ tree = NoTree
    /\ base = NoUrl
    /\ iter = NoEdge
    /\ cur = 0
    /\ result = Pending
    /\ pc = "Compact"
    /\ log = <<>>

\* serde_json::from_str(trimmed) succeeds: the value is written back
DirectParse ==
    /\ pc = "Compact"
    /\ JsonParse(Trim(output)).ok
    /\ result' = Ok(JsonToString(JsonParse(Trim(output)).v))
    /\ pc' = "Done"
    /\ log' = Append(log, Step("Compact", 0))
    /\ UNCHANGED <<html, config, tree, base, iter, cur, output>>

\* serde_json::from_str(trimmed) fails: the or_else closure starts its scan
BeginRepair ==
    /\ pc = "Compact"
    /\ ~JsonParse(Trim(output)).ok
    /\ iter' = ScanStart
    /\ cur' = 0
    /\ pc' = "Repair"
    /\ UNCHANGED <<html, config, tree, base, output, result, log>>

\* one turn of for c in trimmed.chars()
RepairChar ==
    /\ pc = "Repair"
    /\ cur < Len(Trim(output))
    /\ iter' = FixStep(iter, Trim(output)[cur + 1])
    /\ cur' = cur + 1
    /\ UNCHANGED <<html, config, tree, base, output, result, pc, log>>

\* serde_json::from_str(&fixed), then the value written back or the markup
\* fallback on the text as it was
Reparse ==
    /\ pc = "Repair"
    /\ cur = Len(Trim(output))
    /\ result' = Ok(IF JsonParse(iter.fixed).ok
                    THEN JsonToString(JsonParse(iter.fixed).v)
                    ELSE MinifyMarkup(output))
    /\ pc' = "Done"
    /\ log' = Append(log, Step("Compact", 0))
    /\ UNCHANGED <<html, config, tree, base, iter, cur, output>>

NextRepair ==
    \/ DirectParse
    \/ BeginRepair
    \/ RepairChar
    \/ Reparse

SpecRepair == InitRepair /\ [][NextRepair]_vars

\* the scan is under way or over
Scanning == pc \in {"Repair", "Done"} /\ iter # NoEdge

\* the number of backslashes in a row that end right before position i of s
BackslashRun(s, i) ==
    CHOOSE k \in 0..(i - 1) :
        /\ \A j \in (i - k)..(i - 1) : s[j] = BSL
        /\ i - k - 1 >= 1 => s[i - k - 1] # BSL

\* position i of s follows an escaping backslash: one that is not itself
\* escaped, which is so when the backslashes in a row before i are odd in number
Escaped(s, i) == BackslashRun(s, i) % 2 = 1

\* position i of s lies inside a quoted string: the unescaped quotes before
\* it are odd in number
InString(s, i) ==
    Cardinality({j \in 1..(i - 1) : s[j] = QUOTE /\ ~Escaped(s, j)}) % 2 = 1

\* what the repair pass owes for position i of s
Repaired(s, i) ==
    IF ~Escaped(s, i) /\ InString(s, i) /\ IsControl(s[i])
    THEN CASE s[i] = NL -> <<BSL, "n">>
           [] s[i] = CR -> <<BSL, "r">>
           [] s[i] = TAB -> <<BSL, "t">>
           [] OTHER -> <<>>
    ELSE <<s[i]>>

\* position i of s directly follows a backslash
AfterBackslash(s, i) == i > 1 /\ s[i - 1] = BSL

\* position i of s lies after an odd number of quotes that do not directly
\* follow a backslash
InStringByPrevious(s, i) ==
    Cardinality({j \in 1..(i - 1) : s[j] = QUOTE /\ ~AfterBackslash(s, j)}) % 2 = 1

\* what is owed for position i of s when the escape flag is read as "the
\* previous character was a backslash"
RepairedByPrevious(s, i) ==
    IF ~AfterBackslash(s, i) /\ InStringByPrevious(s, i) /\ IsControl(s[i])
    THEN CASE s[i] = NL -> <<BSL, "n">>
           [] s[i] = CR -> <<BSL, "r">>
           [] s[i] = TAB -> <<BSL, "t">>
           [] OTHER -> <<>>
    ELSE <<s[i]>>

(***************************************************************************)
(* C11.  As claimed: the repair pass is a scan with two flags, inside a    *)
(* quoted string and previous character was a backslash; every character   *)
(* directly after a backslash is passed through unchanged, only a quote    *)
(* that does not follow a backslash toggles the in-string flag, and a raw  *)
(* newline, carriage return or tab inside a string is replaced by \n, \r   *)
(* or \t, any other raw control character there being dropped.             *)
(***************************************************************************)
C11_RepairByPreviousChar ==
    Scanning =>
        LET s == Trim(html)
        IN iter.fixed = Concat([i \in 1..cur |-> RepairedByPrevious(s, i)])

(***************************************************************************)
(* C11, as amended.  The repair pass is a scan with two flags, inside a    *)
(* quoted string and previous character was an escaping backslash (one not *)
(* itself escaped).  Its output equals its input except that a raw         *)
(* newline, carriage return or tab inside a string and not escaped is      *)
(* replaced by \n, \r or \t, and any other raw control character there is  *)
(* dropped; every character outside a string, and every character directly *)
(* after an escaping backslash, is passed through unchanged, and only an   *)
(* unescaped quote toggles the in-string flag.  The scan runs only when    *)
(* the trimmed text does not parse; {"k":  "v <newline> w"} is repaired,   *)
(* parsed and written back as {"k":"v \n w"}.                              *)
(***************************************************************************)
C11_RepairScan ==
    /\ Scanning =>
          LET s == Trim(html)
          IN /\ ~JsonParse(s).ok
             /\ iter.fixed = Concat([i \in 1..cur |-> Repaired(s, i)])
             /\ iter.in_string = InString(s, cur + 1)
             /\ iter.escape_next = Escaped(s, cur + 1)
             /\ pc = "Done" => cur = Len(s) /\ iter.fixed = FixControlChars(s)
    /\ pc = "Done" => result = Ok(Compact(html))
    /\ pc = "Done" /\ html = JsonExample => result = Ok(JsonExampleCompacted)

\* a text with an escaped backslash before a raw carriage return and an
\* escaped quote before a raw tab has been repaired, parsed and written back
C11_Witness ==
    /\ pc = "Done"
    /\ html = EscapesExample
    /\ Scanning
    /\ iter.fixed = <<"{", QUOTE,"k",QUOTE, ":", QUOTE, "a", BSL, BSL, BSL, "r",
                      "b", BSL, QUOTE, BSL, "t", QUOTE, "}">>
    /\ result = Ok(iter.fixed)

====
